---- MODULE Spec2Model ----
(***************************************************************************)
(* Model of the MatchDetails component of the soccerx-ai frontend          *)
(* (src/frontend/src/components/Match/LiveCommentary.jsx, lines 91-514):   *)
(* the details fetch, the render guards and renderFormationGrid, the       *)
(* formation-grid layout engine.                                           *)
(*                                                                         *)
(* Conventions                                                             *)
(*  - A JavaScript string is a sequence of one-character strings.          *)
(*  - A JavaScript number that may be NaN is a record [nan, v].            *)
(*  - undefined (an absent formation or startXI) is the value Undefined.   *)
(*  - leftPercentage is kept in hundredths of a percent (23.33 -> 2333);   *)
(*    the IEEE doubles the code computes for row sizes 1..4 print as       *)
(*    exactly these two-decimal values.                                    *)
(*  - topPercentage is the exact rational <<numerator, denominator>>.      *)
(***************************************************************************)
EXTENDS Integers, Sequences, FiniteSets, TLC

(***************************************************************************)
(* State of one mounted MatchDetails component (props isOpen and matchId   *)
(* are truthy and do not change)                                           *)
(***************************************************************************)
VARIABLES
  details,          \* useState(null): the match record, or null
  loading,          \* useState(true)
  lineupAvailable,  \* useState(false)
  request,          \* the axios.get of fetchDetails: "none", "pending", "settled"
  screen,           \* what the last render returned
  commentaryCache,  \* CommentaryService: Map matchId -> commentary list
  activeMatches,    \* Set of matchIds
  pollingInterval,  \* the id setInterval returned, or NoInterval for null
  lastFetchTime,    \* Map matchId -> Date.now() of the last successful fetch
  failedAttempts,   \* Map matchId -> rejected fetches since the last success
  intervals,        \* the runtime's live intervals: id -> time of the next call
  now,              \* Date.now()
  inflight,         \* the axios.get requests of fetchCommentary not yet settled
  lastAttempt,      \* history: when the last request of each match was sent
  liveCommentary,   \* LiveCommentary: its props, its state, its effect's intervalId
  lcIntervals,      \* the runtime's live intervals of LiveCommentary: id -> matchId
  lcRequests,       \* the axios.get requests of LiveCommentary not yet settled
  mdProps,          \* MatchDetails as MatchList mounts it: matchId and isOpen
  mdRequests,       \* the axios.get requests of fetchDetails not yet settled
  detailsOf,        \* history: the matchId whose response details holds
  searchBar,        \* SearchBar: query, searchResults, loading, showDropdown
  searchRequests,   \* the axios.get requests of handleSearch not yet settled
  typedQuery,       \* history: the value of the last change event of the input
  matchList,        \* MatchList: its props and its state
  matchRequests,    \* the axios.get requests of fetchMatches not yet settled
  lastFinished,     \* history: how the fetch that settled last ended
  leaguePage,       \* LeaguePage: route id, location.state and its state
  sessionStorage,   \* window.sessionStorage: key -> JSON text
  leagueRequests    \* the axios.get requests of fetchLeagueData not yet settled

\* the state of the MatchDetails component
mdVars == <<details, loading, lineupAvailable, request, screen>>

\* the state of the CommentaryService singleton and of its environment
svcVars == <<commentaryCache, activeMatches, pollingInterval, lastFetchTime,
             failedAttempts, intervals, now, inflight, lastAttempt>>

\* the LiveCommentary component and its environment
lcVars == <<liveCommentary, lcIntervals, lcRequests>>

\* the components other than MatchDetails, outside the CommentaryService
\* MatchDetails under the match clicks of MatchList
raceVars == <<mdProps, mdRequests, detailsOf>>

\* the SearchBar component and its environment
sbVars == <<searchBar, searchRequests, typedQuery>>

\* the MatchList component and its environment
mlVars == <<matchList, matchRequests, lastFinished>>

\* the LeaguePage component and its environment
lpVars == <<leaguePage, sessionStorage, leagueRequests>>

pageVars == <<lcVars, raceVars, sbVars, mlVars, lpVars>>

vars == <<details, loading, lineupAvailable, request, screen,
          commentaryCache, activeMatches, pollingInterval, lastFetchTime,
          failedAttempts, intervals, now, inflight, lastAttempt,
          liveCommentary, lcIntervals, lcRequests,
          mdProps, mdRequests, detailsOf,
          searchBar, searchRequests, typedQuery,
          matchList, matchRequests, lastFinished,
          leaguePage, sessionStorage, leagueRequests>>

(***************************************************************************)
(* Bounds of the model                                                     *)
(***************************************************************************)
\* outfield rows of the formations built from every combination of Segments
MaxRows == 2
\* rows of the uniform formations "1-1-...-1" and "2-2-...-2"
MaxLongRows == 7
\* longest starting list the data provider sends
MaxRoster == 15
\* longest starting list in which one entry carries no player object
MaxGapRoster == 3
\* longest text typed into the search input
MaxQuery == 3
\* Date.now() when the CommentaryService is constructed, in ms
StartTime == 300000
\* the clock is observed every ClockStep ms, and whenever an interval is due
ClockStep == 30000
\* the clock stops Horizon ms after StartTime
Horizon == 60000
\* requests of fetchCommentary that can be awaiting their response at once
MaxInflight == 2

(***************************************************************************)
(* JavaScript values                                                       *)
(***************************************************************************)
Undefined == <<"undefined">>

NaN == [nan |-> TRUE, v |-> 0]

Num(n) == [nan |-> FALSE, v |-> n]

\* a + b on numbers: NaN is absorbing
NumAdd(a, b) == IF a.nan \/ b.nan THEN NaN ELSE Num(a.v + b.v)

\* a < b on numbers: every comparison with NaN is false
NumLt(a, b) == ~a.nan /\ ~b.nan /\ a.v < b.v

Digits == {"0", "1", "2", "3", "4", "5", "6", "7", "8", "9"}

DigitValue(c) ==
  CASE c = "0" -> 0 [] c = "1" -> 1 [] c = "2" -> 2 [] c = "3" -> 3
    [] c = "4" -> 4 [] c = "5" -> 5 [] c = "6" -> 6 [] c = "7" -> 7
    [] c = "8" -> 8 [] c = "9" -> 9

AllDigits(s) == \A k \in 1..Len(s) : s[k] \in Digits

RECURSIVE RadixValue(_, _)
\* value of a non-empty digit string in the given radix
RadixValue(s, radix) ==
  IF Len(s) = 0 THEN 0
  ELSE RadixValue(SubSeq(s, 1, Len(s) - 1), radix) * radix + DigitValue(s[Len(s)])

\* ToNumber reading the first character only, as Number(str[0]) would
ToNumberFirstChar(s) ==
  IF Len(s) = 0 THEN Num(0)
  ELSE IF s[1] \in Digits THEN Num(DigitValue(s[1]))
  ELSE NaN

\* Number(str) for strings over the digits, "x" and "-": the empty string is
\* 0, a run of decimal digits its decimal value, "0x" followed by hex digits
\* the hexadecimal value, anything else NaN.
ToNumber(s) ==
  IF Len(s) = 0 THEN Num(0)
  ELSE IF AllDigits(s) THEN Num(RadixValue(s, 10))
  ELSE IF Len(s) >= 3 /\ s[1] = "0" /\ s[2] = "x" /\ AllDigits(SubSeq(s, 3, Len(s)))
       THEN Num(RadixValue(SubSeq(s, 3, Len(s)), 16))
  ELSE NaN

RECURSIVE SplitFrom(_, _, _, _)
\* String.prototype.split(sep): scan s from position k, cur is the segment
\* being collected; every separator closes a segment, empty ones included.
SplitFrom(s, sep, k, cur) ==
  IF k > Len(s) THEN <<cur>>
  ELSE IF s[k] = sep THEN <<cur>> \o SplitFrom(s, sep, k + 1, <<>>)
  ELSE SplitFrom(s, sep, k + 1, Append(cur, s[k]))

Split(s, sep) == SplitFrom(s, sep, 1, <<>>)

\* lineup.formation.split("-").map(Number)
ParseFormation(formation) ==
  LET segs == Split(formation, "-")
  IN  [k \in 1..Len(segs) |-> ToNumber(segs[k])]

(***************************************************************************)
(* renderFormationGrid: the layout engine                                  *)
(***************************************************************************)
RECURSIVE RowLoopInclusive(_, _, _, _)
\* RowLoop comparing with <= instead of <
RowLoopInclusive(formationRows, i, position, positionCount) ==
  IF i >= Len(formationRows)
  THEN [row |-> 0, playersInRow |-> 1, position |-> position]
  ELSE IF ~NumLt(NumAdd(positionCount, formationRows[i + 1]), Num(position))
          /\ ~formationRows[i + 1].nan /\ ~positionCount.nan
       THEN [row |-> i + 1,
             playersInRow |-> formationRows[i + 1].v,
             position |-> position - positionCount.v]
       ELSE RowLoopInclusive(formationRows, i + 1, position,
                             NumAdd(positionCount, formationRows[i + 1]))

RECURSIVE RowLoop(_, _, _, _)
\* the for loop over formationRows; i is the 0-based loop index. Falling
\* out of the loop leaves row = 0, playersInRow = 1 and position = index.
RowLoop(formationRows, i, position, positionCount) ==
  IF i >= Len(formationRows)
  THEN [row |-> 0, playersInRow |-> 1, position |-> position]
  ELSE IF NumLt(Num(position), NumAdd(positionCount, formationRows[i + 1]))
       THEN [row |-> i + 1,
             playersInRow |-> formationRows[i + 1].v,
             position |-> position - positionCount.v]
       ELSE RowLoop(formationRows, i + 1, position,
                    NumAdd(positionCount, formationRows[i + 1]))

\* AssignRow with positionCount starting at 0 instead of 1
AssignRowCountFromZero(formationRows, index) ==
  IF index = 0
  THEN [row |-> 0, playersInRow |-> 1, position |-> index]
  ELSE RowLoop(formationRows, 0, index, Num(0))

\* AssignRow with positionCount kept outside the component: a render that
\* follows a rendered grid starts the count one too high
AssignRowCarried(formationRows, index) ==
  IF index = 0
  THEN [row |-> 0, playersInRow |-> 1, position |-> index]
  ELSE RowLoop(formationRows, 0, index,
               Num(IF screen.view = "details" THEN 2 ELSE 1))

\* row, playersInRow and position of the player at the 0-based index
AssignRow(formationRows, index) ==
  IF index = 0
  THEN [row |-> 0, playersInRow |-> 1, position |-> index]
  ELSE RowLoop(formationRows, 0, index, Num(1))

\* TopPercentage without the 10% margin
TopPercentageNoMargin(row, totalRows) == <<row * 120, totalRows + 1>>

\* (row * 120) / (totalRows + 1) + 10 as <<numerator, denominator>>
TopPercentage(row, totalRows) ==
  <<row * 120 + 10 * (totalRows + 1), totalRows + 1>>

\* LeftPercentage spreading a row evenly, slot s of n at 100 * (s + 1) / (n + 1)
\* (rounded down to hundredths)
LeftPercentageEvenSpread(playersInRow, position) ==
  IF playersInRow \in 1..4
  THEN [defined |-> TRUE, v |-> (10000 * (position + 1)) \div (playersInRow + 1)]
  ELSE [defined |-> FALSE, v |-> 0]

\* LeftPercentage without the branch for a single player
LeftPercentageNoSingle(playersInRow, position) ==
  IF playersInRow = 2
  THEN [defined |-> TRUE, v |-> IF position = 0 THEN 3000 ELSE 7000]
  ELSE IF playersInRow = 3 THEN [defined |-> TRUE, v |-> 2000 + position * 3000]
  ELSE IF playersInRow = 4 THEN [defined |-> TRUE, v |-> 1500 + position * 2333]
  ELSE [defined |-> FALSE, v |-> 0]

\* LeftPercentage with the two values of a pair exchanged
LeftPercentageSwappedPair(playersInRow, position) ==
  IF playersInRow = 1 THEN [defined |-> TRUE, v |-> 5000]
  ELSE IF playersInRow = 2
       THEN [defined |-> TRUE, v |-> IF position = 0 THEN 7000 ELSE 3000]
  ELSE IF playersInRow = 3 THEN [defined |-> TRUE, v |-> 2000 + position * 3000]
  ELSE IF playersInRow = 4 THEN [defined |-> TRUE, v |-> 1500 + position * 2333]
  ELSE [defined |-> FALSE, v |-> 0]

\* LeftPercentage with the gaps the source comments call the former ones
\* (35/65, 25, 20)
LeftPercentageFormerGaps(playersInRow, position) ==
  IF playersInRow = 1 THEN [defined |-> TRUE, v |-> 5000]
  ELSE IF playersInRow = 2
       THEN [defined |-> TRUE, v |-> IF position = 0 THEN 3500 ELSE 6500]
  ELSE IF playersInRow = 3 THEN [defined |-> TRUE, v |-> 2500 + position * 2500]
  ELSE IF playersInRow = 4 THEN [defined |-> TRUE, v |-> 2000 + position * 2000]
  ELSE [defined |-> FALSE, v |-> 0]

\* leftPercentage in hundredths; it stays undefined when no branch assigns it
LeftPercentage(playersInRow, position) ==
  IF playersInRow = 1 THEN [defined |-> TRUE, v |-> 5000]
  ELSE IF playersInRow = 2
       THEN [defined |-> TRUE, v |-> IF position = 0 THEN 3000 ELSE 7000]
  ELSE IF playersInRow = 3 THEN [defined |-> TRUE, v |-> 2000 + position * 3000]
  ELSE IF playersInRow = 4 THEN [defined |-> TRUE, v |-> 1500 + position * 2333]
  ELSE [defined |-> FALSE, v |-> 0]

\* what the map callback returns for an entry without a player object
NullCell ==
  [rendered |-> FALSE, row |-> 0, playersInRow |-> 0, position |-> 0,
   top |-> <<0, 1>>, left |-> [defined |-> FALSE, v |-> 0]]

\* PlayerCell computing topPercentage from the index instead of the row
PlayerCellTopByIndex(item, index, formationRows, totalRows) ==
  IF item # "player" THEN NullCell
  ELSE LET a == AssignRow(formationRows, index)
       IN  [rendered |-> TRUE, row |-> a.row, playersInRow |-> a.playersInRow,
            position |-> a.position,
            top |-> <<index * 120 + 10 * (totalRows + 1), totalRows + 1>>,
            left |-> LeftPercentage(a.playersInRow, a.position)]

\* the callback of lineup.startXI.map for the entry item at the 0-based index
PlayerCell(item, index, formationRows, totalRows) ==
  IF item # "player" THEN NullCell
  ELSE LET a == AssignRow(formationRows, index)
       IN  [rendered |-> TRUE, row |-> a.row, playersInRow |-> a.playersInRow,
            position |-> a.position,
            top |-> TopPercentage(a.row, totalRows),
            left |-> LeftPercentage(a.playersInRow, a.position)]

\* the outcomes of one call of renderFormationGrid
NullGrid ==
  [kind |-> "null", teamColor |-> "", formationRows |-> <<>>, totalRows |-> 0,
   cells |-> <<>>, label |-> <<>>]

NotCalled == [NullGrid EXCEPT !.kind = "notCalled"]

TypeErrorGrid == [NullGrid EXCEPT !.kind = "TypeError"]

\* LineupGuard comparing the formation with undefined only, so that the
\* empty string passes
LineupGuardUndefinedOnly(lineup) ==
  \/ lineup.formation = Undefined
  \/ lineup.startXI = Undefined

\* !lineup?.formation || !lineup?.startXI : undefined and "" are falsy, an
\* empty array is truthy
LineupGuard(lineup) ==
  \/ lineup.formation = Undefined
  \/ lineup.formation = <<>>
  \/ lineup.startXI = Undefined

\* GridBody laying the players out from the end of the starting list
GridBodyFromEnd(lineup, homeId) ==
  IF lineup.formation = Undefined \/ lineup.startXI = Undefined
  THEN TypeErrorGrid
  ELSE LET formationRows == ParseFormation(lineup.formation)
           totalRows == Len(formationRows) + 1
       IN  [kind |-> "grid",
            teamColor |-> IF lineup.team = homeId THEN "a7d8a7" ELSE "a7d8d8",
            formationRows |-> formationRows,
            totalRows |-> totalRows,
            cells |-> [k \in 1..Len(lineup.startXI) |->
                         PlayerCell(lineup.startXI[k], Len(lineup.startXI) - k,
                                    formationRows, totalRows)],
            label |-> lineup.formation]

\* the body after the guard; split on an undefined formation and map on an
\* undefined startXI throw a TypeError
GridBody(lineup, homeId) ==
  IF lineup.formation = Undefined \/ lineup.startXI = Undefined
  THEN TypeErrorGrid
  ELSE LET formationRows == ParseFormation(lineup.formation)
           totalRows == Len(formationRows) + 1
       IN  [kind |-> "grid",
            teamColor |-> IF lineup.team = homeId THEN "a7d8a7" ELSE "a7d8d8",
            formationRows |-> formationRows,
            totalRows |-> totalRows,
            cells |-> [k \in 1..Len(lineup.startXI) |->
                         PlayerCell(lineup.startXI[k], k - 1, formationRows, totalRows)],
            label |-> lineup.formation]

RenderFormationGrid(lineup, homeId) ==
  IF LineupGuard(lineup) THEN NullGrid ELSE GridBody(lineup, homeId)

(***************************************************************************)
(* Responses of the match data provider                                    *)
(***************************************************************************)
RECURSIVE Join(_)
\* the segments joined by "-"
Join(segs) ==
  IF Len(segs) = 1 THEN segs[1] ELSE segs[1] \o <<"-">> \o Join(Tail(segs))

\* the formation string whose segments are the given one-character rows
Rows(rs) == Join([k \in 1..Len(rs) |-> <<rs[k]>>])

Segments == {<<>>, <<"x">>, <<"0">>, <<"1">>, <<"2">>, <<"3">>, <<"4">>, <<"5">>}

\* every string of 1..MaxRows segments
GridFormations ==
  UNION {{Join(segs) : segs \in [1..n -> Segments]} : n \in 1..MaxRows}

\* "1", "1-1", ... and "2", "2-2", ... up to MaxLongRows rows
UniformFormations ==
  {Rows([k \in 1..n |-> c]) : n \in 1..MaxLongRows, c \in {"1", "2"}}

\* formations of three and four rows, and strings with longer segments
OtherFormations ==
  {Rows(<<"4", "3", "3">>), Rows(<<"4", "4", "2">>), Rows(<<"3", "4", "3">>),
   Rows(<<"5", "3", "2">>), Rows(<<"3", "5", "2">>), Rows(<<"4", "x", "3">>),
   Rows(<<"4", "0", "2">>), <<"4", "-", "-", "2">>,
   Rows(<<"4", "4", "1", "1">>), Rows(<<"4", "2", "3", "1">>),
   Rows(<<"3", "4", "2", "1">>), Rows(<<"4", "1", "4", "1">>),
   <<"1", "0">>, <<"0", "4", "-", "4", "-", "2">>, <<"4", "-", "0", "x", "4", "-", "2">>}

Formations ==
  GridFormations \cup UniformFormations \cup OtherFormations \cup {Undefined}

\* a starting list of n entries, the entry at 1-based position gap (if any)
\* without a player object
Roster(n, gap) == [k \in 1..n |-> IF k = gap THEN "empty" ELSE "player"]

Rosters ==
  {Roster(n, 0) : n \in 0..MaxRoster}
    \cup UNION {{Roster(n, gap) : gap \in 1..n} : n \in 1..MaxGapRoster}
    \cup {Undefined}

Lineup(team, formation, startXI) ==
  [team |-> team, formation |-> formation, startXI |-> startXI]

\* the away lineup repeats the home lineup or is a 4-4-2 with eleven players
AwayLineup(h, same) ==
  IF same THEN Lineup("away", h.formation, h.startXI)
  ELSE Lineup("away", Rows(<<"4", "4", "2">>), Roster(11, 0))

\* response.data.data with the two teams' lineups
MatchData(formation, startXI, same) ==
  LET h == Lineup("home", formation, startXI)
  IN  [home |-> "home", hasLineups |-> TRUE, lineups |-> <<h, AwayLineup(h, same)>>]

\* response.data.data with lineups absent (present = FALSE) or empty
NoLineups(present) == [home |-> "home", hasLineups |-> present, lineups |-> <<>>]

NullDetails == [null |-> TRUE, home |-> "", hasLineups |-> FALSE, lineups |-> <<>>]

Details(matchData) ==
  [null |-> FALSE, home |-> matchData.home, hasLineups |-> matchData.hasLineups,
   lineups |-> matchData.lineups]

(***************************************************************************)
(* CommentaryService: the maps, the polling timer and fetchCommentary      *)
(***************************************************************************)
\* setInterval(..., 30000): poll every 30 seconds
PollingPeriod == 30000
\* 30000 * Math.pow(2, failedAttempts)
BackoffBase == 30000
\* Math.min(..., 300000): max 5 minutes
BackoffCap == 300000

\* this.pollingInterval = null
NoInterval == 0

\* the matches the pages ask commentary for
MatchIds == {1, 2}

\* response.data.data.commentary
Commentaries == {<<"goal">>}

\* new Map()
EmptyMap == [key \in {} |-> 0]

\* map.get(key) || fallback
MapGet(map, key, fallback) == IF key \in DOMAIN map THEN map[key] ELSE fallback

\* map.set(key, value)
MapSet(map, key, value) ==
  [k \in DOMAIN map \cup {key} |-> IF k = key THEN value ELSE map[k]]

\* map.delete(key)
MapDelete(map, key) == [k \in DOMAIN map \ {key} |-> map[k]]

Min(a, b) == IF a < b THEN a ELSE b

\* const backoffTime = Math.min(30000 * Math.pow(2, failedAttempts), 300000)
BackoffTime(failed) == Min(BackoffBase * 2 ^ failed, BackoffCap)

\* fetchCommentary up to its await: FALSE when it returns at line 80, TRUE
\* when it goes on to axios.get
PastBackoff(matchId) ==
  LET lastFetch == MapGet(lastFetchTime, matchId, 0)
      failed == MapGet(failedAttempts, matchId, 0)
      backoffTime == BackoffTime(failed)
  IN  ~(now - lastFetch < backoffTime)

\* the pending axios.get of a fetchCommentary call: the continuation keeps
\* matchId and the now of line 73; copy tells equal requests apart
Request(matchId, pending) ==
  [matchId |-> matchId, now |-> now,
   copy |-> CHOOSE c \in 0..Cardinality(pending) :
              /\ [matchId |-> matchId, now |-> now, copy |-> c] \notin pending
              /\ \A b \in 0..(c - 1) :
                   [matchId |-> matchId, now |-> now, copy |-> b] \in pending]

\* startPolling without the test of this.pollingInterval
StartPollingUnguarded ==
  LET id == CHOOSE i \in 1..(Cardinality(DOMAIN intervals) + 1) :
              i \notin DOMAIN intervals
  IN  <<id, MapSet(intervals, id, now + PollingPeriod)>>

\* startPolling: <<this.pollingInterval, the live intervals>> after the call
StartPolling ==
  IF pollingInterval = NoInterval
  THEN LET id == CHOOSE i \in 1..(Cardinality(DOMAIN intervals) + 1) :
                   i \notin DOMAIN intervals
       IN  <<id, MapSet(intervals, id, now + PollingPeriod)>>
  ELSE <<pollingInterval, intervals>>

\* getCommentary(matchId)
GetCommentary(matchId) == MapGet(commentaryCache, matchId, <<>>)

\* the constructor
ServiceInit ==
  /\ commentaryCache = EmptyMap
  /\ activeMatches = {}
  /\ pollingInterval = NoInterval
  /\ lastFetchTime = EmptyMap
  /\ failedAttempts = EmptyMap
  /\ intervals = EmptyMap
  /\ now = StartTime
  /\ inflight = {}
  /\ lastAttempt = [m \in MatchIds |-> 0]

\* addMatch(matchId): the add, the initial fetch up to its await, startPolling
AddMatch(matchId) ==
  /\ Cardinality(inflight) < MaxInflight
  /\ IF matchId \notin activeMatches
     THEN /\ activeMatches' = activeMatches \cup {matchId}
          /\ IF PastBackoff(matchId)
             THEN /\ inflight' = inflight \cup {Request(matchId, inflight)}
                  /\ lastAttempt' = [lastAttempt EXCEPT ![matchId] = now]
             ELSE UNCHANGED <<inflight, lastAttempt>>
          /\ pollingInterval' = StartPolling[1]
          /\ intervals' = StartPolling[2]
     ELSE UNCHANGED <<activeMatches, inflight, lastAttempt, pollingInterval,
                      intervals>>
  /\ UNCHANGED <<commentaryCache, lastFetchTime, failedAttempts, now>>
  /\ UNCHANGED <<mdVars, pageVars>>

\* removeMatch(matchId)
RemoveMatch(matchId) ==
  /\ activeMatches' = activeMatches \ {matchId}
  /\ commentaryCache' = MapDelete(commentaryCache, matchId)
  /\ lastFetchTime' = MapDelete(lastFetchTime, matchId)
  /\ failedAttempts' = MapDelete(failedAttempts, matchId)
  /\ IF activeMatches' = {} /\ pollingInterval # NoInterval
     THEN /\ intervals' = MapDelete(intervals, pollingInterval)
          /\ pollingInterval' = NoInterval
     ELSE UNCHANGED <<intervals, pollingInterval>>
  /\ UNCHANGED <<now, inflight, lastAttempt>>
  /\ UNCHANGED <<mdVars, pageVars>>

\* the interval is due: updateAllActiveMatches runs fetchCommentary, up to
\* its await, for every active match
UpdateAllActiveMatches ==
  /\ \E id \in DOMAIN intervals :
       /\ intervals[id] = now
       /\ intervals' = [intervals EXCEPT ![id] = now + PollingPeriod]
  /\ LET fetched == {m \in activeMatches : PastBackoff(m)}
     IN  /\ Cardinality(inflight) + Cardinality(fetched) <= MaxInflight
         /\ inflight' = inflight \cup {Request(m, inflight) : m \in fetched}
         /\ lastAttempt' = [m \in MatchIds |->
                              IF m \in fetched THEN now ELSE lastAttempt[m]]
  /\ UNCHANGED <<commentaryCache, activeMatches, pollingInterval, lastFetchTime,
                 failedAttempts, now>>
  /\ UNCHANGED <<mdVars, pageVars>>

\* time passes, up to the next call of an interval
Tick ==
  /\ \A id \in DOMAIN intervals : intervals[id] > now
  /\ LET due == {intervals[id] : id \in DOMAIN intervals}
         next == IF \E d \in due : d < now + ClockStep
                 THEN CHOOSE d \in due : \A e \in due : d <= e
                 ELSE now + ClockStep
     IN  /\ next <= StartTime + Horizon
         /\ now' = next
  /\ UNCHANGED <<commentaryCache, activeMatches, pollingInterval, lastFetchTime,
                 failedAttempts, intervals, inflight, lastAttempt>>
  /\ UNCHANGED <<mdVars, pageVars>>

\* axios.get resolves with status "success": lines 84-88
FetchCommentarySuccess(r, commentary) ==
  /\ r \in inflight
  /\ inflight' = inflight \ {r}
  /\ commentaryCache' = MapSet(commentaryCache, r.matchId, commentary)
  /\ lastFetchTime' = MapSet(lastFetchTime, r.matchId, r.now)
  /\ failedAttempts' = MapSet(failedAttempts, r.matchId, 0)
  /\ UNCHANGED <<activeMatches, pollingInterval, intervals, now, lastAttempt>>
  /\ UNCHANGED <<mdVars, pageVars>>

\* axios.get resolves with another status: the test of line 84 fails
FetchCommentaryNotSuccess(r) ==
  /\ r \in inflight
  /\ inflight' = inflight \ {r}
  /\ UNCHANGED <<commentaryCache, activeMatches, pollingInterval, lastFetchTime,
                 failedAttempts, intervals, now, lastAttempt>>
  /\ UNCHANGED <<mdVars, pageVars>>

\* a catch that also drops what was cached for the match
FetchCommentaryErrorClearing(r) ==
  /\ r \in inflight
  /\ inflight' = inflight \ {r}
  /\ LET attempts == MapGet(failedAttempts, r.matchId, 0) + 1
     IN  failedAttempts' = MapSet(failedAttempts, r.matchId, attempts)
  /\ commentaryCache' = MapDelete(commentaryCache, r.matchId)
  /\ UNCHANGED <<activeMatches, pollingInterval, lastFetchTime,
                 intervals, now, lastAttempt>>
  /\ UNCHANGED <<mdVars, pageVars>>

\* axios.get rejects: the catch of lines 89-94
FetchCommentaryError(r) ==
  /\ r \in inflight
  /\ inflight' = inflight \ {r}
  /\ LET attempts == MapGet(failedAttempts, r.matchId, 0) + 1
     IN  failedAttempts' = MapSet(failedAttempts, r.matchId, attempts)
  /\ UNCHANGED <<commentaryCache, activeMatches, pollingInterval, lastFetchTime,
                 intervals, now, lastAttempt>>
  /\ UNCHANGED <<mdVars, pageVars>>

NextCommentary ==
  \/ \E matchId \in MatchIds : AddMatch(matchId)
  \/ \E matchId \in MatchIds : RemoveMatch(matchId)
  \/ UpdateAllActiveMatches
  \/ Tick
  \/ \E r \in inflight, commentary \in Commentaries :
       FetchCommentarySuccess(r, commentary)
  \/ \E r \in inflight : FetchCommentaryNotSuccess(r)
  \/ \E r \in inflight : FetchCommentaryError(r)

(***************************************************************************)
(* LiveCommentary: the effect, its interval and fetchCommentary            *)
(***************************************************************************)
\* the matchId prop: 0 when the parent passes none
LcMatchIds == {0, 1, 2}

\* the matchStatus prop
MatchStatuses == {"NS", "1H", "HT", "2H", "FT"}

\* ["1H", "2H", "HT"].includes(matchStatus)
IsLive(matchStatus) == matchStatus \in {"1H", "2H", "HT"}

\* a pending axios.get of a component: what it was sent for, and copy to
\* tell equal requests apart
Pending(for, pending) ==
  [for |-> for,
   copy |-> CHOOSE c \in 0..Cardinality(pending) :
              /\ [for |-> for, copy |-> c] \notin pending
              /\ \A b \in 0..(c - 1) : [for |-> for, copy |-> b] \in pending]

\* no instance of the component is mounted
LcUnmounted ==
  [mounted |-> FALSE, matchId |-> 0, matchStatus |-> "NS", comments |-> <<>>,
   loading |-> TRUE, error |-> FALSE, intervalId |-> 0]

\* useState([]), useState(true), useState(null) of a new instance
LcMounted(matchId, matchStatus) ==
  [mounted |-> TRUE, matchId |-> matchId, matchStatus |-> matchStatus,
   comments |-> <<>>, loading |-> TRUE, error |-> FALSE, intervalId |-> 0]

LiveCommentaryInit ==
  /\ liveCommentary = LcUnmounted
  /\ lcIntervals = EmptyMap
  /\ lcRequests = {}

\* fetchCommentary up to its await: the pending requests after the call
LcFetchCommentary(matchId, pending) ==
  IF matchId = 0 THEN pending ELSE pending \cup {Pending(matchId, pending)}

\* a cleanup that leaves the interval of the effect running
EffectCleanupNone == lcIntervals

\* the function the effect returns: the live intervals after it ran
EffectCleanup ==
  IF liveCommentary.intervalId # 0
  THEN MapDelete(lcIntervals, liveCommentary.intervalId)
  ELSE lcIntervals

\* the effect body for the props (matchId, matchStatus), run with the live
\* intervals live: <<intervalId, the live intervals>> after it
EffectBody(matchId, matchStatus, live) ==
  IF IsLive(matchStatus)
  THEN LET id == CHOOSE i \in 1..(Cardinality(DOMAIN live) + 1) : i \notin DOMAIN live
       IN  <<id, MapSet(live, id, matchId)>>
  ELSE <<0, live>>

\* the parent renders <LiveCommentary matchId matchStatus />: first render
\* and effect
LcMount(matchId, matchStatus) ==
  /\ ~liveCommentary.mounted
  /\ Cardinality(lcRequests) < MaxInflight
  /\ liveCommentary' = [LcMounted(matchId, matchStatus) EXCEPT
                          !.intervalId = EffectBody(matchId, matchStatus, lcIntervals)[1]]
  /\ lcIntervals' = EffectBody(matchId, matchStatus, lcIntervals)[2]
  /\ lcRequests' = LcFetchCommentary(matchId, lcRequests)
  /\ UNCHANGED <<mdVars, svcVars, raceVars, sbVars, mlVars, lpVars>>

\* matchId or matchStatus changes: cleanup of the previous effect, then the
\* effect again
LcChangeProps(matchId, matchStatus) ==
  /\ liveCommentary.mounted
  /\ <<matchId, matchStatus>> # <<liveCommentary.matchId, liveCommentary.matchStatus>>
  /\ Cardinality(lcRequests) < MaxInflight
  /\ liveCommentary' = [liveCommentary EXCEPT
                          !.matchId = matchId,
                          !.matchStatus = matchStatus,
                          !.intervalId = EffectBody(matchId, matchStatus, EffectCleanup)[1]]
  /\ lcIntervals' = EffectBody(matchId, matchStatus, EffectCleanup)[2]
  /\ lcRequests' = LcFetchCommentary(matchId, lcRequests)
  /\ UNCHANGED <<mdVars, svcVars, raceVars, sbVars, mlVars, lpVars>>

\* the component is removed: cleanup; the state of the instance is gone and
\* the continuations of its requests set the state of no mounted component
LcUnmount ==
  /\ liveCommentary.mounted
  /\ liveCommentary' = LcUnmounted
  /\ lcIntervals' = EffectCleanup
  /\ lcRequests' = {}
  /\ UNCHANGED <<mdVars, svcVars, raceVars, sbVars, mlVars, lpVars>>

\* 30 seconds have passed: the interval calls the fetchCommentary of the
\* render that created it
LcIntervalFires ==
  /\ \E id \in DOMAIN lcIntervals :
       /\ Cardinality(lcRequests) < MaxInflight
       /\ lcRequests' = LcFetchCommentary(lcIntervals[id], lcRequests)
  /\ UNCHANGED <<liveCommentary, lcIntervals>>
  /\ UNCHANGED <<mdVars, svcVars, raceVars, sbVars, mlVars, lpVars>>

\* axios.get resolves with status "success"
LcResponseSuccess(r, commentary) ==
  /\ r \in lcRequests
  /\ lcRequests' = lcRequests \ {r}
  /\ liveCommentary' = [liveCommentary EXCEPT !.comments = commentary,
                                               !.loading = FALSE]
  /\ UNCHANGED lcIntervals
  /\ UNCHANGED <<mdVars, svcVars, raceVars, sbVars, mlVars, lpVars>>

\* axios.get resolves with another status
LcResponseNotSuccess(r) ==
  /\ r \in lcRequests
  /\ lcRequests' = lcRequests \ {r}
  /\ liveCommentary' = [liveCommentary EXCEPT !.loading = FALSE]
  /\ UNCHANGED lcIntervals
  /\ UNCHANGED <<mdVars, svcVars, raceVars, sbVars, mlVars, lpVars>>

\* axios.get rejects
LcResponseError(r) ==
  /\ r \in lcRequests
  /\ lcRequests' = lcRequests \ {r}
  /\ liveCommentary' = [liveCommentary EXCEPT !.error = TRUE, !.loading = FALSE]
  /\ UNCHANGED lcIntervals
  /\ UNCHANGED <<mdVars, svcVars, raceVars, sbVars, mlVars, lpVars>>

NextLiveCommentary ==
  \/ \E matchId \in LcMatchIds, matchStatus \in MatchStatuses :
       LcMount(matchId, matchStatus)
  \/ \E matchId \in LcMatchIds, matchStatus \in MatchStatuses :
       LcChangeProps(matchId, matchStatus)
  \/ LcUnmount
  \/ LcIntervalFires
  \/ \E r \in lcRequests, commentary \in Commentaries :
       LcResponseSuccess(r, commentary)
  \/ \E r \in lcRequests : LcResponseNotSuccess(r)
  \/ \E r \in lcRequests : LcResponseError(r)

\* MatchList has no selectedMatchId: MatchDetails is not mounted
MatchDetailsPropsInit ==
  /\ mdProps = [matchId |-> 0, isOpen |-> FALSE]
  /\ mdRequests = {}
  /\ detailsOf = 0

\* useState(""), useState([]), useState(false), useState(false)
SearchBarInit ==
  /\ searchBar = [query |-> <<>>, searchResults |-> <<>>, loading |-> FALSE,
                  showDropdown |-> FALSE]
  /\ searchRequests = {}
  /\ typedQuery = <<>>

\* Object.keys(MAJOR_LEAGUES), two of the eight leagues of the table
MajorLeagueNames == <<"Premier League", "La Liga">>

\* MatchTabs has not rendered MatchList yet
MatchListInit ==
  /\ matchList = [mounted |-> FALSE, completed |-> FALSE, showAllLeagues |-> FALSE,
                  matches |-> <<>>, loading |-> TRUE, error |-> FALSE,
                  selectedLeagues |-> MajorLeagueNames, allLeagues |-> <<>>]
  /\ matchRequests = {}
  /\ lastFinished = "none"

\* location.state without leagueInfo
NoLeagueInfo == [present |-> FALSE, leagueInfo |-> <<>>]

\* useState(null)
NoLeagueData == [null |-> TRUE, value |-> <<>>]

\* the route /league/:id is not shown and the session has stored nothing
LeaguePageInit ==
  /\ leaguePage = [mounted |-> FALSE, id |-> "", state |-> NoLeagueInfo,
                   leagueData |-> NoLeagueData, loading |-> TRUE, error |-> FALSE]
  /\ sessionStorage = EmptyMap
  /\ leagueRequests = {}

\* the initial state of the pages
PagesInit ==
  /\ LiveCommentaryInit
  /\ MatchDetailsPropsInit
  /\ SearchBarInit
  /\ MatchListInit
  /\ LeaguePageInit

(***************************************************************************)
(* MatchDetails: the effect, the responses and the render                  *)
(***************************************************************************)
\* team.startXI && team.startXI.length > 0
HasStartXI(lineup) == lineup.startXI # Undefined /\ Len(lineup.startXI) > 0

\* matchData.lineups && lineups.length > 0 && lineups.some(formation && startXI?.length > 0)
HasLineups(matchData) ==
  /\ matchData.hasLineups
  /\ Len(matchData.lineups) > 0
  /\ \E k \in 1..Len(matchData.lineups) :
       /\ matchData.lineups[k].formation # Undefined
       /\ matchData.lineups[k].formation # <<>>
       /\ HasStartXI(matchData.lineups[k])

NoScreen == [view |-> "none", placeholder |-> FALSE, grids |-> <<>>]

\* the Lineups section of the returned tree
LineupsSection(d, available) ==
  IF available
  THEN [view |-> "details", placeholder |-> FALSE,
        grids |-> [k \in 1..Len(d.lineups) |->
                     IF HasStartXI(d.lineups[k])
                     THEN RenderFormationGrid(d.lineups[k], d.home)
                     ELSE NotCalled]]
  ELSE [view |-> "details", placeholder |-> TRUE, grids |-> <<>>]

\* the component function: loading and !details return early
View(d, isLoading, available) ==
  IF isLoading THEN [NoScreen EXCEPT !.view = "loading"]
  ELSE IF d.null THEN [NoScreen EXCEPT !.view = "nodetails"]
  ELSE LineupsSection(d, available)

Init ==
  /\ details = NullDetails
  /\ loading = TRUE
  /\ lineupAvailable = FALSE
  /\ request = "none"
  /\ screen = NoScreen
  /\ ServiceInit
  /\ PagesInit

\* the effect after mount: fetchDetails sets loading and sends the request
FetchDetails ==
  /\ request = "none"
  /\ request' = "pending"
  /\ loading' = TRUE
  /\ UNCHANGED <<details, lineupAvailable, screen>>
  /\ UNCHANGED <<svcVars, pageVars>>

\* the response carries data
FetchSuccess ==
  /\ request = "pending"
  /\ \E matchData \in {NoLineups(b) : b \in BOOLEAN}
                       \cup {MatchData(f, r, same) :
                               f \in Formations, r \in Rosters, same \in BOOLEAN} :
       /\ details' = Details(matchData)
       /\ lineupAvailable' = HasLineups(matchData)
  /\ loading' = FALSE
  /\ request' = "settled"
  /\ UNCHANGED screen
  /\ UNCHANGED <<svcVars, pageVars>>

\* the response carries no data
FetchNoData ==
  /\ request = "pending"
  /\ details' = NullDetails
  /\ loading' = FALSE
  /\ request' = "settled"
  /\ UNCHANGED <<lineupAvailable, screen>>
  /\ UNCHANGED <<svcVars, pageVars>>

\* axios.get rejects
FetchError ==
  /\ request = "pending"
  /\ details' = NullDetails
  /\ loading' = FALSE
  /\ request' = "settled"
  /\ UNCHANGED <<lineupAvailable, screen>>
  /\ UNCHANGED <<svcVars, pageVars>>

\* a render that cuts the starting lists of the record to eleven in place
\* before laying them out
RenderMutating ==
  /\ details' = [details EXCEPT
                   !.lineups = [k \in 1..Len(details.lineups) |->
                     IF HasStartXI(details.lineups[k])
                     THEN [details.lineups[k] EXCEPT
                             !.startXI = SubSeq(@, 1, Min(Len(@), 11))]
                     ELSE details.lineups[k]]]
  /\ screen' = View(details', loading, lineupAvailable)
  /\ UNCHANGED <<loading, lineupAvailable, request>>
  /\ UNCHANGED <<svcVars, pageVars>>

\* React calls the component function
Render ==
  /\ screen' = View(details, loading, lineupAvailable)
  /\ UNCHANGED <<details, loading, lineupAvailable, request>>
  /\ UNCHANGED <<svcVars, pageVars>>

Next == FetchDetails \/ FetchSuccess \/ FetchNoData \/ FetchError \/ Render

Spec == Init /\ [][Next]_vars

\* the CommentaryService, its timer, its requests and the clock
SpecCommentary == Init /\ [][NextCommentary]_vars

\* the LiveCommentary component under changes of its props
SpecLiveCommentary == Init /\ [][NextLiveCommentary]_vars

(***************************************************************************)
(* MatchDetails while the user clicks through the matches of MatchList     *)
(***************************************************************************)
\* response.data.data of GET /api/matches/<matchId>
MatchResponses ==
  {NoLineups(TRUE), NoLineups(FALSE),
   MatchData(Rows(<<"4", "4", "2">>), Roster(11, 0), TRUE)}

\* match.id of the matches MatchList shows
ListedMatchIds == {1, 2, 3}

\* the modal with its close button is on the screen: it covers the list
ModalShown == mdProps.isOpen /\ ~loading /\ ~details.null

\* handleMatchClick(matchId) of MatchList: the first click mounts
\* MatchDetails, a click on another match changes its matchId; the effect
\* calls fetchDetails, which sets loading and sends the request
MdSelectMatch(id) ==
  /\ ~ModalShown
  /\ id # mdProps.matchId
  /\ Cardinality(mdRequests) < MaxInflight
  /\ mdProps' = [matchId |-> id, isOpen |-> TRUE]
  /\ loading' = TRUE
  /\ mdRequests' = mdRequests \cup {Pending(id, mdRequests)}
  /\ UNCHANGED <<details, lineupAvailable, request, screen, detailsOf>>
  /\ UNCHANGED <<svcVars, lcVars, sbVars, mlVars, lpVars>>

\* the close button: MatchList clears selectedMatchId and MatchDetails is
\* unmounted; a later click mounts a new instance
MdClose ==
  /\ ModalShown
  /\ mdProps' = [matchId |-> 0, isOpen |-> FALSE]
  /\ details' = NullDetails
  /\ loading' = TRUE
  /\ lineupAvailable' = FALSE
  /\ mdRequests' = {}
  /\ detailsOf' = 0
  /\ UNCHANGED <<request, screen>>
  /\ UNCHANGED <<svcVars, lcVars, sbVars, mlVars, lpVars>>

\* a response with data arrives for the request r
MdResponseData(r, matchData) ==
  /\ r \in mdRequests
  /\ mdRequests' = mdRequests \ {r}
  /\ details' = Details(matchData)
  /\ lineupAvailable' = HasLineups(matchData)
  /\ loading' = FALSE
  /\ detailsOf' = r.for
  /\ UNCHANGED <<request, screen, mdProps>>
  /\ UNCHANGED <<svcVars, lcVars, sbVars, mlVars, lpVars>>

\* a response without data arrives for the request r
MdResponseNoData(r) ==
  /\ r \in mdRequests
  /\ mdRequests' = mdRequests \ {r}
  /\ details' = NullDetails
  /\ loading' = FALSE
  /\ detailsOf' = 0
  /\ UNCHANGED <<lineupAvailable, request, screen, mdProps>>
  /\ UNCHANGED <<svcVars, lcVars, sbVars, mlVars, lpVars>>

\* the request r is rejected
MdResponseError(r) ==
  /\ r \in mdRequests
  /\ mdRequests' = mdRequests \ {r}
  /\ details' = NullDetails
  /\ loading' = FALSE
  /\ detailsOf' = 0
  /\ UNCHANGED <<lineupAvailable, request, screen, mdProps>>
  /\ UNCHANGED <<svcVars, lcVars, sbVars, mlVars, lpVars>>

NextMatchClicks ==
  \/ \E id \in ListedMatchIds : MdSelectMatch(id)
  \/ MdClose
  \/ \E r \in mdRequests, matchData \in MatchResponses : MdResponseData(r, matchData)
  \/ \E r \in mdRequests : MdResponseNoData(r)
  \/ \E r \in mdRequests : MdResponseError(r)

\* MatchDetails under the clicks on the matches of MatchList
SpecMatchClicks == Init /\ [][NextMatchClicks]_vars

(***************************************************************************)
(* SearchBar: handleSearch and its responses                               *)
(***************************************************************************)
\* the characters the user types, in order
Letters == <<"a", "b", "c", "d", "e", "f">>

\* e.target.value: the texts the input can hold
Queries == {SubSeq(Letters, 1, n) : n \in 0..MaxQuery}

\* response.data.results for the query q: one hit that names q
ResultsFor(q) == <<[type |-> "team", name |-> q]>>

\* response.data.results || []
SearchResponses(q) == {ResultsFor(q), <<>>}

\* handleSearch(e) up to its await: the change event of the input
HandleSearch(searchQuery) ==
  /\ searchQuery # searchBar.query
  /\ typedQuery' = searchQuery
  /\ IF Len(searchQuery) < 2
     THEN /\ searchBar' = [searchBar EXCEPT !.query = searchQuery,
                                            !.searchResults = <<>>,
                                            !.showDropdown = FALSE]
          /\ UNCHANGED searchRequests
     ELSE /\ Cardinality(searchRequests) < MaxInflight
          /\ searchBar' = [searchBar EXCEPT !.query = searchQuery, !.loading = TRUE]
          /\ searchRequests' = searchRequests \cup {Pending(searchQuery, searchRequests)}
  /\ UNCHANGED <<mdVars, svcVars, lcVars, raceVars, mlVars, lpVars>>

\* the search responds
SearchResponse(r, results) ==
  /\ r \in searchRequests
  /\ searchRequests' = searchRequests \ {r}
  /\ searchBar' = [searchBar EXCEPT !.searchResults = results,
                                     !.showDropdown = TRUE,
                                     !.loading = FALSE]
  /\ UNCHANGED typedQuery
  /\ UNCHANGED <<mdVars, svcVars, lcVars, raceVars, mlVars, lpVars>>

\* the search request is rejected
SearchError(r) ==
  /\ r \in searchRequests
  /\ searchRequests' = searchRequests \ {r}
  /\ searchBar' = [searchBar EXCEPT !.searchResults = <<>>, !.loading = FALSE]
  /\ UNCHANGED typedQuery
  /\ UNCHANGED <<mdVars, svcVars, lcVars, raceVars, mlVars, lpVars>>

\* handleResultClick(result): the dropdown closes and the input is emptied
HandleResultClick ==
  /\ searchBar.showDropdown
  /\ Len(searchBar.searchResults) > 0
  /\ searchBar' = [searchBar EXCEPT !.showDropdown = FALSE, !.query = <<>>]
  /\ UNCHANGED <<searchRequests, typedQuery>>
  /\ UNCHANGED <<mdVars, svcVars, lcVars, raceVars, mlVars, lpVars>>

\* handleClickOutside: a mousedown outside the component
HandleClickOutside ==
  /\ searchBar' = [searchBar EXCEPT !.showDropdown = FALSE]
  /\ UNCHANGED <<searchRequests, typedQuery>>
  /\ UNCHANGED <<mdVars, svcVars, lcVars, raceVars, mlVars, lpVars>>

NextSearchBar ==
  \/ \E searchQuery \in Queries : HandleSearch(searchQuery)
  \/ \E r \in searchRequests :
       \E results \in SearchResponses(r.for) : SearchResponse(r, results)
  \/ \E r \in searchRequests : SearchError(r)
  \/ HandleResultClick
  \/ HandleClickOutside

\* the SearchBar under typing, responses and clicks
SpecSearchBar == Init /\ [][NextSearchBar]_vars

(***************************************************************************)
(* MatchList: fetchMatches, its responses and the render guards            *)
(***************************************************************************)
\* MAJOR_LEAGUES[leagueName]?.id; 0 stands for undefined
MajorLeagueId(leagueName) ==
  IF leagueName = "Premier League" THEN 39
  ELSE IF leagueName = "La Liga" THEN 140
  ELSE 0

\* a match of response.data.data: league "" stands for a match without
\* league, timestamp is new Date(match.fixture.date).getTime()
ApiMatch(id, league, leagueId, timestamp) ==
  [id |-> id, league |-> league, leagueId |-> leagueId, timestamp |-> timestamp]

\* response.data.data || []
MatchesData ==
  {<<>>,
   <<ApiMatch(1, "Premier League", 39, 2)>>,
   <<ApiMatch(1, "Premier League", 39, 2), ApiMatch(2, "MLS", 253, 1),
     ApiMatch(3, "Premier League", 39, 1)>>,
   <<ApiMatch(4, "La Liga", 141, 1), ApiMatch(5, "", 0, 3)>>}

RECURSIVE InsertByTimestamp(_, _)
\* x put into the sorted list after every entry that is not later
InsertByTimestamp(sorted, x) ==
  IF sorted = <<>> THEN <<x>>
  ELSE IF x.timestamp < Head(sorted).timestamp THEN <<x>> \o sorted
  ELSE <<Head(sorted)>> \o InsertByTimestamp(Tail(sorted), x)

RECURSIVE SortByTimestamp(_)
\* list.sort((a, b) => a.timestamp - b.timestamp)
SortByTimestamp(list) ==
  IF list = <<>> THEN <<>>
  ELSE InsertByTimestamp(SortByTimestamp(SubSeq(list, 1, Len(list) - 1)),
                         list[Len(list)])

\* the callback of matchesData.reduce: acc is the list of the groups
\* [leagueName, matches] in the order of their first match
GroupStep(acc, match, showAllLeagues) ==
  IF match.league = "" \/ match.leagueId = 0 THEN acc
  ELSE IF ~showAllLeagues /\ MajorLeagueId(match.league) # match.leagueId THEN acc
  ELSE LET item == [id |-> match.id, timestamp |-> match.timestamp,
                    competition |-> match.league]
       IN  IF \E g \in 1..Len(acc) : acc[g].leagueName = match.league
           THEN [g \in 1..Len(acc) |->
                   IF acc[g].leagueName = match.league
                   THEN [acc[g] EXCEPT !.matches = Append(@, item)]
                   ELSE acc[g]]
           ELSE Append(acc, [leagueName |-> match.league, matches |-> <<item>>])

RECURSIVE Reduce(_, _)
\* matchesData.reduce(..., {})
Reduce(matchesData, showAllLeagues) ==
  IF matchesData = <<>> THEN <<>>
  ELSE GroupStep(Reduce(SubSeq(matchesData, 1, Len(matchesData) - 1), showAllLeagues),
                 matchesData[Len(matchesData)], showAllLeagues)

\* groupedMatches after the forEach that sorts every league
GroupedMatches(matchesData, showAllLeagues) ==
  LET acc == Reduce(matchesData, showAllLeagues)
  IN  [g \in 1..Len(acc) |-> [acc[g] EXCEPT !.matches = SortByTimestamp(@)]]

RECURSIVE Filter(_, _)
\* list.filter: the elements of list that are in keep, in their order
Filter(list, keep) ==
  IF list = <<>> THEN <<>>
  ELSE IF Head(list) \in keep THEN <<Head(list)>> \o Filter(Tail(list), keep)
  ELSE Filter(Tail(list), keep)

\* Array.from(availableLeagues)
LeaguesList(grouped) == [g \in 1..Len(grouped) |-> grouped[g].leagueName]

\* the leagues setSelectedLeagues receives
SelectedAfterFetch(matchesData, showAllLeagues) ==
  IF showAllLeagues
  THEN Filter(LeaguesList(GroupedMatches(matchesData, showAllLeagues)),
              {league \in {"Premier League", "La Liga"} :
                 \E k \in 1..Len(matchesData) :
                   /\ matchesData[k].league = league
                   /\ matchesData[k].leagueId = MajorLeagueId(league)})
  ELSE MajorLeagueNames

\* MatchTabs renders <MatchList completed showAllLeagues />: first render
\* and effect; fetchMatches runs up to its await
MlMount ==
  /\ ~matchList.mounted
  /\ matchList' = [matchList EXCEPT !.mounted = TRUE, !.loading = TRUE]
  /\ matchRequests' = matchRequests \cup {Pending(<<FALSE, FALSE>>, matchRequests)}
  /\ UNCHANGED lastFinished
  /\ UNCHANGED <<mdVars, svcVars, lcVars, raceVars, sbVars, lpVars>>

\* a tab or the all-leagues button is clicked: the props change and the
\* effect runs fetchMatches up to its await
MlChangeProps(completed, showAllLeagues) ==
  /\ matchList.mounted
  /\ <<completed, showAllLeagues>> # <<matchList.completed, matchList.showAllLeagues>>
  /\ Cardinality(matchRequests) < MaxInflight
  /\ matchList' = [matchList EXCEPT !.completed = completed,
                                     !.showAllLeagues = showAllLeagues,
                                     !.loading = TRUE]
  /\ matchRequests' = matchRequests
                        \cup {Pending(<<completed, showAllLeagues>>, matchRequests)}
  /\ UNCHANGED lastFinished
  /\ UNCHANGED <<mdVars, svcVars, lcVars, raceVars, sbVars, lpVars>>

\* the response of the request r arrives: lines 36-106 and finally, with the
\* showAllLeagues of the render that sent r
MlResponse(r, matchesData) ==
  /\ r \in matchRequests
  /\ matchRequests' = matchRequests \ {r}
  /\ matchList' = [matchList EXCEPT
                     !.matches = GroupedMatches(matchesData, r.for[2]),
                     !.allLeagues = IF r.for[2]
                                    THEN LeaguesList(GroupedMatches(matchesData, r.for[2]))
                                    ELSE @,
                     !.selectedLeagues = SelectedAfterFetch(matchesData, r.for[2]),
                     !.loading = FALSE]
  /\ lastFinished' = "ok"
  /\ UNCHANGED <<mdVars, svcVars, lcVars, raceVars, sbVars, lpVars>>

\* the request r is rejected: catch and finally
MlError(r) ==
  /\ r \in matchRequests
  /\ matchRequests' = matchRequests \ {r}
  /\ matchList' = [matchList EXCEPT !.error = TRUE, !.loading = FALSE]
  /\ lastFinished' = "failed"
  /\ UNCHANGED <<mdVars, svcVars, lcVars, raceVars, sbVars, lpVars>>

\* what the component returns: the spinner, the error line or the list
MlView ==
  IF matchList.loading THEN "loading"
  ELSE IF matchList.error THEN "error"
  ELSE "list"

\* toggleLeagueSelection(league): a checkbox of the all-leagues list
ToggleLeagueSelection(league) ==
  /\ matchList.mounted
  /\ MlView = "list"
  /\ matchList.showAllLeagues
  /\ \E g \in 1..Len(matchList.allLeagues) : matchList.allLeagues[g] = league
  /\ matchList' = [matchList EXCEPT
                     !.selectedLeagues =
                        IF \E g \in 1..Len(@) : @[g] = league
                        THEN Filter(@, {@[g] : g \in 1..Len(@)} \ {league})
                        ELSE Append(@, league)]
  /\ UNCHANGED <<matchRequests, lastFinished>>
  /\ UNCHANGED <<mdVars, svcVars, lcVars, raceVars, sbVars, lpVars>>

NextMatchList ==
  \/ MlMount
  \/ \E completed \in BOOLEAN, showAllLeagues \in BOOLEAN :
       MlChangeProps(completed, showAllLeagues)
  \/ \E r \in matchRequests, matchesData \in MatchesData : MlResponse(r, matchesData)
  \/ \E r \in matchRequests : MlError(r)
  \/ \E league \in {"Premier League", "La Liga", "MLS"} : ToggleLeagueSelection(league)

\* MatchList under tab switches, the all-leagues toggle and the responses
SpecMatchList == Init /\ [][NextMatchList]_vars

(***************************************************************************)
(* LeaguePage: navigation state, sessionStorage, API                       *)
(***************************************************************************)
\* useParams().id
LeagueIds == {"39", "140"}

\* a property of an object; defined is FALSE when its value is undefined
Field(key, value) == [key |-> key, value |-> value, defined |-> TRUE]

UndefinedField(key) == [key |-> key, value |-> "", defined |-> FALSE]

\* location.state.leagueInfo as the pages that navigate here build it
LeagueInfos(id) ==
  {<<Field("id", id), Field("name", "league"), Field("logo", "logo.png")>>,
   <<Field("id", id), Field("name", "league"), UndefinedField("logo")>>}

\* location.state of a navigation to /league/<id>
LocationStates(id) ==
  {NoLeagueInfo} \cup {[present |-> TRUE, leagueInfo |-> info] : info \in LeagueInfos(id)}

\* response.data of GET /api/leagues/<id>; present is FALSE for an empty body
LeagueResponses(id) ==
  {[present |-> FALSE, data |-> <<>>],
   [present |-> TRUE,
    data |-> <<Field("id", id), Field("name", "league"), Field("country", "country")>>]}

\* `league_${id}`
LeagueKey(id) == <<"league_", id>>

\* JSON.stringify(value): the properties whose value is undefined are left out
JsonStringify(value) == [json |-> SelectSeq(value, LAMBDA f : f.defined)]

\* JSON.parse(text)
JsonParse(text) == text.json

\* a resolution that looks into sessionStorage before the navigation state
ResolveStorageFirst(id, state) ==
  IF LeagueKey(id) \in DOMAIN sessionStorage THEN "sessionStorage"
  ELSE IF state.present THEN "state"
  ELSE "api"

\* where fetchLeagueData takes the data from: lines 24, 36-37, 44
Resolve(id, state) ==
  IF state.present THEN "state"
  ELSE IF LeagueKey(id) \in DOMAIN sessionStorage THEN "sessionStorage"
  ELSE "api"

\* a navigation to /league/<id> with location.state: the page is mounted
\* or its id and location.state change; the effect runs fetchLeagueData up to
\* its return or its await
LpVisit(id, state) ==
  /\ Cardinality(leagueRequests) < MaxInflight
  /\ LET page == IF leaguePage.mounted
                 THEN leaguePage
                 ELSE [leaguePage EXCEPT !.mounted = TRUE,
                                        !.leagueData = NoLeagueData]
         from == Resolve(id, state)
     IN  /\ leaguePage' =
              [page EXCEPT
                 !.id = id,
                 !.state = state,
                 !.error = FALSE,
                 !.loading = (from = "api"),
                 !.leagueData =
                    IF from = "state"
                    THEN [null |-> FALSE, value |-> state.leagueInfo]
                    ELSE IF from = "sessionStorage"
                    THEN [null |-> FALSE,
                          value |-> JsonParse(sessionStorage[LeagueKey(id)])]
                    ELSE @]
         /\ sessionStorage' =
              IF from = "state"
              THEN MapSet(sessionStorage, LeagueKey(id), JsonStringify(state.leagueInfo))
              ELSE sessionStorage
         /\ leagueRequests' =
              IF from = "api"
              THEN leagueRequests
                     \cup {Pending([id |-> id, orphan |-> FALSE], leagueRequests)}
              ELSE leagueRequests
  /\ UNCHANGED <<mdVars, svcVars, lcVars, raceVars, sbVars, mlVars>>

\* a navigation to another route: the page is unmounted; its pending
\* requests go on and their continuations set the state of no mounted page
LpLeave ==
  /\ leaguePage.mounted
  /\ leaguePage' = [mounted |-> FALSE, id |-> "", state |-> NoLeagueInfo,
                    leagueData |-> NoLeagueData, loading |-> TRUE, error |-> FALSE]
  /\ leagueRequests' = {[for |-> [r.for EXCEPT !.orphan = TRUE], copy |-> r.copy] :
                          r \in leagueRequests}
  /\ UNCHANGED sessionStorage
  /\ UNCHANGED <<mdVars, svcVars, lcVars, raceVars, sbVars, mlVars>>

\* the API answers the request r: lines 45-49 and finally
LpResponse(r, response) ==
  /\ r \in leagueRequests
  /\ leagueRequests' = leagueRequests \ {r}
  /\ sessionStorage' =
       IF response.present
       THEN MapSet(sessionStorage, LeagueKey(r.for.id), JsonStringify(response.data))
       ELSE sessionStorage
  /\ leaguePage' =
       IF r.for.orphan THEN leaguePage
       ELSE [leaguePage EXCEPT
               !.leagueData = IF response.present
                              THEN [null |-> FALSE, value |-> response.data]
                              ELSE @,
               !.loading = FALSE]
  /\ UNCHANGED <<mdVars, svcVars, lcVars, raceVars, sbVars, mlVars>>

\* the request r is rejected: catch and finally
LpError(r) ==
  /\ r \in leagueRequests
  /\ leagueRequests' = leagueRequests \ {r}
  /\ leaguePage' =
       IF r.for.orphan THEN leaguePage
       ELSE [leaguePage EXCEPT !.error = TRUE, !.loading = FALSE]
  /\ UNCHANGED sessionStorage
  /\ UNCHANGED <<mdVars, svcVars, lcVars, raceVars, sbVars, mlVars>>

\* handleBackToLeague of TeamPage stores teamStats.league under league_<id>
TeamPageStores(id) ==
  /\ ~leaguePage.mounted
  /\ sessionStorage' = MapSet(sessionStorage, LeagueKey(id),
                              JsonStringify(<<Field("id", id), Field("name", "league")>>))
  /\ UNCHANGED <<leaguePage, leagueRequests>>
  /\ UNCHANGED <<mdVars, svcVars, lcVars, raceVars, sbVars, mlVars>>

NextLeaguePage ==
  \/ \E id \in LeagueIds : \E state \in LocationStates(id) : LpVisit(id, state)
  \/ LpLeave
  \/ \E r \in leagueRequests :
       \E response \in LeagueResponses(r.for.id) : LpResponse(r, response)
  \/ \E r \in leagueRequests : LpError(r)
  \/ \E id \in LeagueIds : TeamPageStores(id)

\* LeaguePage under navigations, responses and the writes of TeamPage
SpecLeaguePage == Init /\ [][NextLeaguePage]_vars

(***************************************************************************)
(* Vocabulary of the properties                                            *)
(***************************************************************************)
\* the lineups whose formation grid is on the screen
ShownGrids ==
  IF screen.view = "details"
  THEN {k \in 1..Len(screen.grids) : screen.grids[k].kind = "grid"}
  ELSE {}

\* the starting list the grid k was rendered from
RosterOf(k) == details.lineups[k].startXI

FormationOf(k) == details.lineups[k].formation

AllPlayers(roster) == \A i \in 1..Len(roster) : roster[i] = "player"

PositiveRows(formationRows) ==
  \A i \in 1..Len(formationRows) : ~formationRows[i].nan /\ formationRows[i].v > 0

RECURSIVE SumRows(_)
SumRows(formationRows) ==
  IF Len(formationRows) = 0 THEN 0
  ELSE formationRows[1].v + SumRows(Tail(formationRows))

\* the goalkeeper plus the outfield rows
Capacity(formationRows) == 1 + SumRows(formationRows)

\* a coordinate is a top% together with a defined left%
HasCoordinate(cell) == cell.rendered /\ cell.left.defined

\* a and b are <<numerator, denominator>> with positive denominators
RatLt(a, b) == a[1] * b[2] < b[1] * a[2]

RatLe(a, b) == a[1] * b[2] <= b[1] * a[2]

\* C1: with positive rows and exactly 1 + sum(rows) players, every player gets
\* one coordinate and the players of one row get pairwise different left%.
C1_ExactRosterDistinct ==
  \A k \in ShownGrids :
    LET g == screen.grids[k]
    IN  (/\ PositiveRows(g.formationRows)
         /\ AllPlayers(RosterOf(k))
         /\ Len(RosterOf(k)) = Capacity(g.formationRows))
        => /\ Len(g.cells) = Len(RosterOf(k))
           /\ \A i \in 1..Len(g.cells) : HasCoordinate(g.cells[i])
           /\ \A i, j \in 1..Len(g.cells) :
                (i # j /\ g.cells[i].row = g.cells[j].row)
                  => g.cells[i].left # g.cells[j].left

\* C2: with more than 1 + sum(rows) players, the players beyond the capacity
\* are not rendered, nothing throws, and the players within the capacity are
\* laid out as with a roster of exactly the capacity.
C2_ExcessPlayersDropped ==
  \A k \in ShownGrids :
    LET g == screen.grids[k]
        cap == Capacity(g.formationRows)
        exact == GridBody([details.lineups[k] EXCEPT
                             !.startXI = SubSeq(RosterOf(k), 1, cap)], details.home)
    IN  (/\ PositiveRows(g.formationRows)
         /\ AllPlayers(RosterOf(k))
         /\ Len(RosterOf(k)) > cap)
        => /\ \A i \in 1..Len(g.cells) : i > cap => ~g.cells[i].rendered
           /\ \A i \in 1..cap : g.cells[i] = exact.cells[i]

\* a segment that is not a run of decimal digits
NonNumericSegment(formation) ==
  \E seg \in {Split(formation, "-")[i] : i \in 1..Len(Split(formation, "-"))} :
    Len(seg) = 0 \/ ~AllDigits(seg)

\* C3: a formation with a non-numeric segment is refused: no grid is laid
\* out for it and no player gets a coordinate.
C3_MalformedFormationNoLayout ==
  screen.view = "details" =>
    \A k \in 1..Len(screen.grids) :
      (FormationOf(k) # Undefined /\ NonNumericSegment(FormationOf(k)))
        => /\ screen.grids[k].kind # "grid"
           /\ \A i \in 1..Len(screen.grids[k].cells) :
                ~screen.grids[k].cells[i].rendered

\* the formation is missing or empty, or the starting list is missing
MissingLineup(lineup) ==
  \/ lineup.formation = Undefined
  \/ lineup.formation = <<>>
  \/ lineup.startXI = Undefined

\* C4: a lineup without formation or without starting list yields no
\* coordinates and no exception: either the placeholder replaces the whole
\* section, or its grid is the null result (or was never asked for); when no
\* lineup is complete the placeholder is shown.
C4_NoLineupAvailable ==
  screen.view = "details" =>
    /\ \A k \in 1..Len(screen.grids) : screen.grids[k].kind # "TypeError"
    /\ \A k \in 1..Len(details.lineups) :
         MissingLineup(details.lineups[k])
           => \/ screen.placeholder
              \/ /\ screen.grids[k].kind \in {"null", "notCalled"}
                 /\ screen.grids[k].cells = <<>>
    /\ (\A k \in 1..Len(details.lineups) : MissingLineup(details.lineups[k]))
         => screen.placeholder /\ screen.grids = <<>>

\* the home lineup has no formation, the away lineup is complete: the home
\* grid is the null result next to a rendered away grid
C4_Witness ==
  /\ screen.view = "details"
  /\ ~screen.placeholder
  /\ Len(screen.grids) = 2
  /\ FormationOf(1) = <<>>
  /\ Len(RosterOf(1)) = 11
  /\ screen.grids[1].kind = "null"
  /\ screen.grids[2].kind = "grid"

\* C5: every coordinate has top% and left% within [0, 100], for positive
\* rows and rosters of up to 15 players.
C5_CoordinatesInRange ==
  \A k \in ShownGrids :
    LET g == screen.grids[k]
    IN  (PositiveRows(g.formationRows) /\ Len(RosterOf(k)) <= 15)
        => \A i \in 1..Len(g.cells) :
             g.cells[i].rendered
               => /\ g.cells[i].left.defined
                  /\ g.cells[i].left.v >= 0
                  /\ g.cells[i].left.v <= 10000
                  /\ RatLe(<<0, 1>>, g.cells[i].top)
                  /\ RatLe(g.cells[i].top, <<100, 1>>)

\* the string matches \d+(-\d+)*
MatchesDigitRows(str) ==
  /\ Len(str) > 0
  /\ \A k \in 1..Len(str) : str[k] \in Digits \cup {"-"}
  /\ str[1] \in Digits
  /\ str[Len(str)] \in Digits
  /\ \A k \in 1..(Len(str) - 1) : ~(str[k] = "-" /\ str[k + 1] = "-")

\* the number of '-'-separated segments of the string
SegmentCount(str) == 1 + Cardinality({k \in 1..Len(str) : str[k] = "-"})

\* C6 as stated: a string matching \d+(-\d+)* parses to one element per
\* segment, each of them a positive integer.
C6_ParsedRowsPositive ==
  \A k \in ShownGrids :
    LET rows == screen.grids[k].formationRows
    IN  MatchesDigitRows(FormationOf(k))
        => /\ Len(rows) = SegmentCount(FormationOf(k))
           /\ Len(rows) >= 1
           /\ \A i \in 1..Len(rows) : ~rows[i].nan /\ rows[i].v > 0

\* C6 as amended: a string matching \d+(-\d+)* parses to one element per
\* segment, each of them an integer >= 0 (never NaN) that is positive exactly
\* when its segment holds a non-zero digit.
C6_ParsedRowsNonNegative ==
  \A k \in ShownGrids :
    LET rows == screen.grids[k].formationRows
        segs == Split(FormationOf(k), "-")
    IN  MatchesDigitRows(FormationOf(k))
        => /\ Len(rows) = SegmentCount(FormationOf(k))
           /\ Len(rows) >= 1
           /\ \A i \in 1..Len(rows) :
                /\ ~rows[i].nan
                /\ rows[i].v >= 0
                /\ (rows[i].v > 0) <=> (\E c \in 1..Len(segs[i]) : segs[i][c] # "0")

\* "4-0-2" with eleven players is laid out with a row of size 0
C6_Witness ==
  \E k \in ShownGrids :
    /\ FormationOf(k) = Rows(<<"4", "0", "2">>)
    /\ RosterOf(k) = Roster(11, 0)
    /\ screen.grids[k].formationRows = <<Num(4), Num(0), Num(2)>>

PlayersInRow(g, row) ==
  Cardinality({i \in 1..Len(g.cells) : g.cells[i].rendered /\ g.cells[i].row = row})

\* the left% values (in hundredths) the grid uses in the row
LeftsOfRow(g, row) ==
  {g.cells[i].left.v : i \in {j \in 1..Len(g.cells) :
                               g.cells[j].rendered /\ g.cells[j].row = row}}

Is433(k) ==
  /\ FormationOf(k) = Rows(<<"4", "3", "3">>)
  /\ RosterOf(k) = Roster(11, 0)

\* C8 as stated: "4-3-3" with 11 players puts 1 player at left% 50, then 4
\* players at {15, 38.33, 61.66, 85}, then twice 3 players at {20, 50, 80}.
C8_Scenario433 ==
  \A k \in ShownGrids :
    LET g == screen.grids[k]
    IN  Is433(k)
        => /\ \A i \in 1..Len(g.cells) : HasCoordinate(g.cells[i])
           /\ PlayersInRow(g, 0) = 1 /\ LeftsOfRow(g, 0) = {5000}
           /\ PlayersInRow(g, 1) = 4 /\ LeftsOfRow(g, 1) = {1500, 3833, 6166, 8500}
           /\ PlayersInRow(g, 2) = 3 /\ LeftsOfRow(g, 2) = {2000, 5000, 8000}
           /\ PlayersInRow(g, 3) = 3 /\ LeftsOfRow(g, 3) = {2000, 5000, 8000}

\* C8 as amended: the four players of row 1 are at {15, 38.33, 61.66, 84.99}
\* (15 + slot * 23.33); the rest is as stated.
C8_Scenario433Exact ==
  \A k \in ShownGrids :
    LET g == screen.grids[k]
    IN  Is433(k)
        => /\ \A i \in 1..Len(g.cells) : HasCoordinate(g.cells[i])
           /\ PlayersInRow(g, 0) = 1 /\ LeftsOfRow(g, 0) = {5000}
           /\ PlayersInRow(g, 1) = 4 /\ LeftsOfRow(g, 1) = {1500, 3833, 6166, 8499}
           /\ PlayersInRow(g, 2) = 3 /\ LeftsOfRow(g, 2) = {2000, 5000, 8000}
           /\ PlayersInRow(g, 3) = 3 /\ LeftsOfRow(g, 3) = {2000, 5000, 8000}

\* a 4-3-3 with eleven players is on the screen
C8_Witness ==
  \E k \in ShownGrids : Is433(k) /\ Len(screen.grids[k].cells) = 11

RatEq(a, b) == a[1] * b[2] = b[1] * a[2]

Is4411(k) ==
  /\ FormationOf(k) = Rows(<<"4", "4", "1", "1">>)
  /\ RosterOf(k) = Roster(11, 0)

\* C9: top% is a function of the row and the number of formation rows (also
\* across the two grids), it is strictly increasing in the row, and in
\* "4-4-1-1" with 11 players the last two players are both at left% 50, in
\* rows 3 and 4, the second one lower on the pitch.
C9_TopByRow ==
  /\ \A k1, k2 \in ShownGrids :
       LET g1 == screen.grids[k1]
           g2 == screen.grids[k2]
       IN  \A i \in 1..Len(g1.cells), j \in 1..Len(g2.cells) :
             (g1.cells[i].rendered /\ g2.cells[j].rendered)
               => /\ (/\ Len(g1.formationRows) = Len(g2.formationRows)
                      /\ g1.cells[i].row = g2.cells[j].row)
                       => RatEq(g1.cells[i].top, g2.cells[j].top)
                  /\ (k1 = k2 /\ g1.cells[i].row < g2.cells[j].row)
                       => RatLt(g1.cells[i].top, g2.cells[j].top)
  /\ \A k \in ShownGrids :
       LET c == screen.grids[k].cells
       IN  Is4411(k)
           => /\ c[10].row = 3 /\ c[11].row = 4
              /\ c[10].playersInRow = 1 /\ c[11].playersInRow = 1
              /\ c[10].left = [defined |-> TRUE, v |-> 5000]
              /\ c[11].left = c[10].left
              /\ RatLt(c[10].top, c[11].top)

\* a 4-4-1-1 with eleven players is on the screen
C9_Witness ==
  \E k \in ShownGrids : Is4411(k) /\ Len(screen.grids[k].cells) = 11

\* C10: in a row of 5 or more players nothing throws and the player in slot
\* s is at left% = 15 + s * (70 / (rowSize - 1)), so the row's players are at
\* pairwise different left% values.
C10_WideRowSpacing ==
  \A k \in ShownGrids :
    LET g == screen.grids[k]
    IN  \A i \in 1..Len(g.cells) :
          (g.cells[i].rendered /\ g.cells[i].playersInRow >= 5)
            => /\ g.cells[i].left.defined
               /\ g.cells[i].left.v * (g.cells[i].playersInRow - 1)
                    = 1500 * (g.cells[i].playersInRow - 1) + g.cells[i].position * 7000
               /\ \A j \in 1..Len(g.cells) :
                    (j # i /\ g.cells[j].rendered /\ g.cells[j].row = g.cells[i].row)
                      => g.cells[j].left # g.cells[i].left

\* the hand-coded left% of the cell minus the generalized value
\* 15 + slot * (70 / (rowSize - 1)), in hundredths times (rowSize - 1)
GeneralizedGap(cell) ==
  cell.left.v * (cell.playersInRow - 1)
    - (1500 * (cell.playersInRow - 1) + cell.position * 7000)

\* C11 as stated: in rows of size 2, 3 and 4 every slot is at exactly
\* 15 + slot * (70 / (rowSize - 1)), and a row of size 1 is at 50.
C11_GeneralizedMatches ==
  \A k \in ShownGrids :
    LET g == screen.grids[k]
    IN  \A i \in 1..Len(g.cells) :
          (g.cells[i].rendered /\ g.cells[i].playersInRow \in 1..4)
            => /\ g.cells[i].left.defined
               /\ g.cells[i].playersInRow = 1 => g.cells[i].left.v = 5000
               /\ g.cells[i].playersInRow > 1 => GeneralizedGap(g.cells[i]) = 0

\* C11 as amended: the generalized formula differs from the hand-coded values:
\* size 2 is 30/70 against 15/85, size 3 is 20/50/80 against 15/50/85, size 4
\* is 15, 38.33, 61.66, 84.99 against 15, 38.33.., 61.66.., 85 (slot s is s/300
\* below); they agree exactly only at size 3 slot 1, size 4 slot 0 and size 1.
C11_GeneralizedDiffers ==
  \A k \in ShownGrids :
    LET g == screen.grids[k]
    IN  \A i \in 1..Len(g.cells) :
          (g.cells[i].rendered /\ g.cells[i].playersInRow \in 1..4)
            => /\ g.cells[i].left.defined
               /\ g.cells[i].playersInRow = 1 => g.cells[i].left.v = 5000
               /\ g.cells[i].playersInRow = 2
                    => GeneralizedGap(g.cells[i])
                         = IF g.cells[i].position = 0 THEN 1500 ELSE -1500
               /\ g.cells[i].playersInRow = 3
                    => GeneralizedGap(g.cells[i]) = 1000 - 1000 * g.cells[i].position
               /\ g.cells[i].playersInRow = 4
                    => GeneralizedGap(g.cells[i]) = -g.cells[i].position

\* a 3-4-2-1 with eleven players shows rows of every hand-coded size
C11_Witness ==
  \E k \in ShownGrids :
    /\ FormationOf(k) = Rows(<<"3", "4", "2", "1">>)
    /\ RosterOf(k) = Roster(11, 0)
    /\ {screen.grids[k].cells[i].playersInRow : i \in 1..11} = {1, 2, 3, 4}

\* C12: a player in a row of size 1 is at left% 50, in the goalkeeper row
\* and in every outfield row, whatever the formation and the index.
C12_SingleCentered ==
  \A k \in ShownGrids :
    LET g == screen.grids[k]
    IN  \A i \in 1..Len(g.cells) :
          (g.cells[i].rendered /\ g.cells[i].playersInRow = 1)
            => g.cells[i].left = [defined |-> TRUE, v |-> 5000]

\* an outfield row of size 1 and the goalkeeper are both on the screen
C12_Witness ==
  \E k \in ShownGrids :
    LET c == screen.grids[k].cells
    IN  /\ Len(c) >= 3
        /\ c[1].rendered /\ c[1].row = 0 /\ c[1].playersInRow = 1
        /\ \E i \in 2..Len(c) :
             c[i].rendered /\ c[i].row >= 2 /\ c[i].playersInRow = 1

\* C13: a roster shorter than 1 + sum(rows) is laid out without error and
\* the player at index i gets the cell index i gets with the full roster.
C13_ShortRosterPrefix ==
  \A k \in 1..Len(screen.grids) :
    LET g == screen.grids[k]
        rows == ParseFormation(FormationOf(k))
        full == GridBody([details.lineups[k] EXCEPT
                            !.startXI = Roster(Capacity(rows), 0)], details.home)
    IN  (/\ screen.view = "details"
         /\ ~MissingLineup(details.lineups[k])
         /\ Len(RosterOf(k)) > 0
         /\ PositiveRows(rows)
         /\ AllPlayers(RosterOf(k))
         /\ Len(RosterOf(k)) < Capacity(rows))
        => /\ g.kind = "grid"
           /\ Len(g.cells) = Len(RosterOf(k))
           /\ \A i \in 1..Len(g.cells) :
                g.cells[i].rendered /\ g.cells[i] = full.cells[i]

\* a 4-4-2 with nine players is on the screen
C13_Witness ==
  \E k \in ShownGrids :
    /\ FormationOf(k) = Rows(<<"4", "4", "2">>)
    /\ RosterOf(k) = Roster(9, 0)
    /\ Len(screen.grids[k].cells) = 9

RECURSIVE SpecRowWalk(_, _, _, _)
\* the row assignment as the specification words it: p is the outfield
\* position index - 1, cursor the outfield players of the rows before row i
\* (0-based); row i takes p when p < cursor + rows[i]
SpecRowWalk(rows, i, p, cursor) ==
  IF i >= Len(rows) THEN [row |-> 0, playersInRow |-> 1, position |-> p + 1]
  ELSE IF p < cursor + rows[i + 1].v
       THEN [row |-> i + 1, playersInRow |-> rows[i + 1].v, position |-> p - cursor]
       ELSE SpecRowWalk(rows, i + 1, p, cursor + rows[i + 1].v)

\* C15: for every index > 0 within the capacity of a formation of positive
\* rows, the code's (row, position, playersInRow) is the one of the specified
\* walk with p = index - 1 and cursor starting at 0.
C15_RowAssignmentRefines ==
  \A k \in ShownGrids :
    LET g == screen.grids[k]
    IN  PositiveRows(g.formationRows)
        => \A i \in 2..Len(g.cells) :
             (g.cells[i].rendered /\ i <= Capacity(g.formationRows))
               => LET w == SpecRowWalk(g.formationRows, 0, i - 2, 0)
                  IN  /\ g.cells[i].row = w.row
                      /\ g.cells[i].position = w.position
                      /\ g.cells[i].playersInRow = w.playersInRow
                      /\ w.row >= 1

\* a 4-2-3-1 with eleven players is on the screen
C15_Witness ==
  \E k \in ShownGrids :
    /\ FormationOf(k) = Rows(<<"4", "2", "3", "1">>)
    /\ RosterOf(k) = Roster(11, 0)
    /\ screen.grids[k].cells[7].row = 2
    /\ screen.grids[k].cells[7].position = 1

\* C16: with positive rows and exactly 1 + sum(rows) players the indices
\* 1..sum(rows) map one-to-one onto the pairs (row, slot): each slot is within
\* its row, row r holds rows[r] players, and the row never decreases with the
\* index.
C16_RowAssignmentBijection ==
  \A k \in ShownGrids :
    LET g == screen.grids[k]
        rows == g.formationRows
    IN  (/\ PositiveRows(rows)
         /\ AllPlayers(RosterOf(k))
         /\ Len(RosterOf(k)) = Capacity(rows))
        => /\ \A i \in 2..Len(g.cells) :
                /\ g.cells[i].row \in 1..Len(rows)
                /\ g.cells[i].playersInRow = rows[g.cells[i].row].v
                /\ g.cells[i].position >= 0
                /\ g.cells[i].position < g.cells[i].playersInRow
           /\ \A r \in 1..Len(rows) :
                Cardinality({i \in 2..Len(g.cells) : g.cells[i].row = r}) = rows[r].v
           /\ \A i, j \in 2..Len(g.cells) :
                /\ (i # j /\ g.cells[i].row = g.cells[j].row)
                     => g.cells[i].position # g.cells[j].position
                /\ i < j => g.cells[i].row <= g.cells[j].row

\* a 3-4-3 with eleven players is on the screen, its last player in the
\* last slot of the last row
C16_Witness ==
  \E k \in ShownGrids :
    /\ FormationOf(k) = Rows(<<"3", "4", "3">>)
    /\ RosterOf(k) = Roster(11, 0)
    /\ screen.grids[k].cells[11].row = 3
    /\ screen.grids[k].cells[11].position = 2

\* C17: the player at index 0 is in row 0, slot 0, with rowSize 1, at
\* top% 10 and left% 50, for every formation; with positive rows and exactly
\* 1 + sum(rows) players nobody else is in row 0.
C17_GoalkeeperRow ==
  \A k \in ShownGrids :
    LET g == screen.grids[k]
    IN  /\ (Len(g.cells) >= 1 /\ g.cells[1].rendered)
          => /\ g.cells[1].row = 0
             /\ g.cells[1].position = 0
             /\ g.cells[1].playersInRow = 1
             /\ RatEq(g.cells[1].top, <<10, 1>>)
             /\ g.cells[1].left = [defined |-> TRUE, v |-> 5000]
        /\ (/\ PositiveRows(g.formationRows)
            /\ AllPlayers(RosterOf(k))
            /\ Len(RosterOf(k)) = Capacity(g.formationRows))
          => \A i \in 2..Len(g.cells) : g.cells[i].row # 0

\* a 4-1-4-1 with eleven players is on the screen
C17_Witness ==
  \E k \in ShownGrids :
    /\ FormationOf(k) = Rows(<<"4", "1", "4", "1">>)
    /\ RosterOf(k) = Roster(11, 0)
    /\ screen.grids[k].cells[1].row = 0
    /\ screen.grids[k].cells[2].row = 1

\* C18: a row of size 2 is at 30 (slot 0) and 70, a row of size 3 at
\* 20 + 30 * slot, a row of size 4 at 15 + 23.33 * slot, and all these values
\* are within [15, 85].
C18_HandCodedLeft ==
  \A k \in ShownGrids :
    LET g == screen.grids[k]
    IN  \A i \in 1..Len(g.cells) :
          (g.cells[i].rendered /\ g.cells[i].playersInRow \in 2..4)
            => /\ g.cells[i].left.defined
               /\ g.cells[i].playersInRow = 2
                    => g.cells[i].left.v = IF g.cells[i].position = 0 THEN 3000 ELSE 7000
               /\ g.cells[i].playersInRow = 3
                    => g.cells[i].left.v = 2000 + 3000 * g.cells[i].position
               /\ g.cells[i].playersInRow = 4
                    => g.cells[i].left.v = 1500 + 2333 * g.cells[i].position
               /\ g.cells[i].left.v >= 1500
               /\ g.cells[i].left.v <= 8500

\* a 4-2-3-1 with eleven players is on the screen, with rows of 2, 3 and 4
C18_Witness ==
  \E k \in ShownGrids :
    /\ FormationOf(k) = Rows(<<"4", "2", "3", "1">>)
    /\ RosterOf(k) = Roster(11, 0)
    /\ {2, 3, 4} \subseteq {screen.grids[k].cells[i].playersInRow : i \in 1..11}

\* C14: computing a layout changes only what is on the screen: the record
\* with its lineups and starting lists, loading, lineupAvailable and the
\* request are left as they were, and the layout is the one of the current
\* record alone.
C14_LayoutHasNoSideEffects ==
  [][screen' # screen
       => /\ UNCHANGED <<details, loading, lineupAvailable, request>>
          /\ screen' = View(details, loading, lineupAvailable)]_vars

\* a layout of more than eleven players has been computed and the record
\* still holds them all
C14_Witness ==
  \E k \in ShownGrids :
    /\ Len(RosterOf(k)) > 11
    /\ Len(screen.grids[k].cells) = Len(RosterOf(k))
    /\ request = "settled"
    /\ ~loading

\* a request of fetchCommentary for matchId is sent in this step
Requested(matchId) ==
  \E r \in inflight' \ inflight : r.matchId = matchId

\* C19: a request for a polled match that has failed k >= 1 times in a row
\* is sent no earlier than min(30000 * 2^k, 300000) ms after the previous
\* request for that match, and this wait is never above 300000 ms.
C19_BackoffFromPreviousAttempt ==
  [][\A m \in activeMatches :
       LET k == MapGet(failedAttempts, m, 0)
       IN  (Requested(m) /\ k >= 1 /\ lastAttempt[m] > 0)
             => /\ now - lastAttempt[m] >= Min(BackoffBase * 2 ^ k, BackoffCap)
                /\ Min(BackoffBase * 2 ^ k, BackoffCap) <= BackoffCap]_vars

\* C20: the polling timer is set exactly when there are active matches, and
\* the runtime holds no interval but the one of this.pollingInterval.
C20_OneTimerIffActive ==
  /\ (pollingInterval # NoInterval) <=> (activeMatches # {})
  /\ Cardinality(DOMAIN intervals) <= 1
  /\ DOMAIN intervals = IF pollingInterval = NoInterval THEN {} ELSE {pollingInterval}

\* both matches are active, one requested a polling period after the other,
\* and one interval polls them
C20_Witness ==
  /\ activeMatches = MatchIds
  /\ Cardinality(DOMAIN intervals) = 1
  /\ \E m \in MatchIds : lastAttempt[m] > StartTime
  /\ \E m \in MatchIds : lastAttempt[m] = StartTime

\* C21: a match that is not active has no entry in commentaryCache,
\* lastFetchTime and failedAttempts: removeMatch deleted them and no response
\* that arrives afterwards brings one back.
C21_RemovedMatchHasNoEntries ==
  \A m \in MatchIds \ activeMatches :
    /\ m \notin DOMAIN commentaryCache
    /\ m \notin DOMAIN lastFetchTime
    /\ m \notin DOMAIN failedAttempts

\* the cache entry and lastFetchTime of the match are the same in both
\* states of the step
EntriesUnchanged(m) ==
  /\ (m \in DOMAIN commentaryCache') <=> (m \in DOMAIN commentaryCache)
  /\ (m \in DOMAIN lastFetchTime') <=> (m \in DOMAIN lastFetchTime)
  /\ m \in DOMAIN commentaryCache => commentaryCache'[m] = commentaryCache[m]
  /\ m \in DOMAIN lastFetchTime => lastFetchTime'[m] = lastFetchTime[m]

\* C22: a fetch that throws or returns another status than "success" leaves
\* the cache entry and lastFetchTime of its match as they were, so
\* getCommentary returns the same list; a response with another status leaves
\* failedAttempts alone too; a success stores the list, the time of the fetch
\* and failedAttempts = 0; failedAttempts grows only in a step of the catch,
\* and then by exactly 1.
C22_FailedFetchKeepsCache ==
  [][/\ \A r \in inflight :
          /\ FetchCommentaryError(r)
               => /\ EntriesUnchanged(r.matchId)
                  /\ MapGet(commentaryCache', r.matchId, <<>>) = GetCommentary(r.matchId)
                  /\ MapGet(failedAttempts', r.matchId, 0)
                       = MapGet(failedAttempts, r.matchId, 0) + 1
          /\ FetchCommentaryNotSuccess(r)
               => /\ EntriesUnchanged(r.matchId)
                  /\ MapGet(commentaryCache', r.matchId, <<>>) = GetCommentary(r.matchId)
                  /\ failedAttempts' = failedAttempts
          /\ \A commentary \in Commentaries :
               FetchCommentarySuccess(r, commentary)
                 => /\ MapGet(commentaryCache', r.matchId, <<>>) = commentary
                    /\ MapGet(lastFetchTime', r.matchId, 0) = r.now
                    /\ r.matchId \in DOMAIN failedAttempts'
                    /\ failedAttempts'[r.matchId] = 0
     /\ \A m \in MatchIds :
          /\ MapGet(failedAttempts', m, 0) > MapGet(failedAttempts, m, 0)
               => /\ MapGet(failedAttempts', m, 0) = MapGet(failedAttempts, m, 0) + 1
                  /\ \E r \in inflight : r.matchId = m /\ inflight' = inflight \ {r}
                  /\ EntriesUnchanged(m)
          /\ (m \in DOMAIN commentaryCache' /\ m \notin DOMAIN commentaryCache)
               => /\ m \in DOMAIN failedAttempts' /\ failedAttempts'[m] = 0
                  /\ \E r \in inflight : r.matchId = m /\ inflight' = inflight \ {r}
                                          /\ lastFetchTime'[m] = r.now]_vars

\* a match with a cached list has had a fetch rejected since: the list is
\* still what getCommentary returns
C22_Witness ==
  \E m \in activeMatches :
    /\ m \in DOMAIN failedAttempts /\ failedAttempts[m] >= 1
    /\ m \in DOMAIN commentaryCache
    /\ GetCommentary(m) = <<"goal">>
    /\ m \in DOMAIN lastFetchTime /\ lastFetchTime[m] < lastAttempt[m]

\* C23: while the component is mounted an interval exists exactly when
\* matchStatus is 1H, 2H or HT, it is the one of the current effect and polls
\* the current matchId; no second interval exists, and none once the
\* component is unmounted.
C23_PollsOnlyWhileLive ==
  /\ Cardinality(DOMAIN lcIntervals) <= 1
  /\ liveCommentary.mounted
       => /\ (DOMAIN lcIntervals # {}) <=> IsLive(liveCommentary.matchStatus)
          /\ \A id \in DOMAIN lcIntervals :
               /\ id = liveCommentary.intervalId
               /\ lcIntervals[id] = liveCommentary.matchId
  /\ ~liveCommentary.mounted => DOMAIN lcIntervals = {}

\* the props changed from match 1 to match 2 while a request for match 1 was
\* pending, and one interval polls match 2 at half time
C23_Witness ==
  /\ liveCommentary.mounted
  /\ liveCommentary.matchId = 2
  /\ liveCommentary.matchStatus = "HT"
  /\ \E r \in lcRequests : r.for = 1
  /\ Cardinality(DOMAIN lcIntervals) = 1

\* C24: when loading is false and details is not null, details is the
\* response for the selected matchId; and loading is not false while the
\* request for the selected matchId is pending.
C24_DetailsOfSelectedMatch ==
  /\ (mdProps.isOpen /\ ~loading /\ ~details.null) => detailsOf = mdProps.matchId
  /\ (mdProps.isOpen /\ \E r \in mdRequests : r.for = mdProps.matchId) => loading

\* C25: once no request is pending, searchResults are the results of the
\* query typed last (or empty, when the search found nothing or failed); when
\* that query has fewer than 2 characters searchResults is empty and the
\* dropdown is hidden, whatever response arrived since.
C25_ResultsOfLastQuery ==
  searchRequests = {}
    => /\ Len(typedQuery) < 2
            => /\ searchBar.searchResults = <<>>
               /\ ~searchBar.showDropdown
       /\ Len(typedQuery) >= 2
            => searchBar.searchResults \in SearchResponses(typedQuery)

\* C26: the error line is shown only while the fetch that finished last
\* failed: once a fetch has succeeded since, and nothing is pending, the
\* match list is displayed.
C26_ErrorOnlyAfterFailedFetch ==
  /\ (MlView = "error") => lastFinished = "failed"
  /\ (matchRequests = {} /\ lastFinished = "ok") => MlView = "list"

\* C27: league data come from the navigation state first, then from
\* sessionStorage, then from the API: a request is sent only for the shown id
\* and only when the navigation state has no leagueInfo and sessionStorage no
\* entry league_<id>; a load from the navigation state and a response with
\* data leave their data, as JSON text, under league_<id>; a visit that finds
\* the entry shows what it parses to; no step removes an entry, so a later
\* visit to the id sends no request.
C27_StateThenStorageThenApi ==
  [][/\ \A r \in leagueRequests' \ leagueRequests :
          ~r.for.orphan
            => /\ r.for.id = leaguePage'.id
               /\ ~leaguePage'.state.present
               /\ LeagueKey(r.for.id) \notin DOMAIN sessionStorage
     /\ \A id \in LeagueIds :
          \A state \in LocationStates(id) :
            LpVisit(id, state)
              => /\ state.present
                      => /\ leaguePage'.leagueData
                              = [null |-> FALSE, value |-> state.leagueInfo]
                         /\ LeagueKey(id) \in DOMAIN sessionStorage'
                         /\ sessionStorage'[LeagueKey(id)] = JsonStringify(state.leagueInfo)
                         /\ leagueRequests' = leagueRequests
                 /\ (~state.present /\ LeagueKey(id) \in DOMAIN sessionStorage)
                      => /\ leaguePage'.leagueData
                              = [null |-> FALSE,
                                 value |-> JsonParse(sessionStorage[LeagueKey(id)])]
                         /\ leagueRequests' = leagueRequests
                         /\ sessionStorage' = sessionStorage
     /\ \A r \in leagueRequests :
          \A response \in LeagueResponses(r.for.id) :
            (LpResponse(r, response) /\ response.present)
              => /\ LeagueKey(r.for.id) \in DOMAIN sessionStorage'
                 /\ sessionStorage'[LeagueKey(r.for.id)] = JsonStringify(response.data)
     /\ DOMAIN sessionStorage \subseteq DOMAIN sessionStorage']_vars

\* league 39 was loaded from the API and league 140 from a navigation state
\* whose logo is undefined; the page now shows league 39 from sessionStorage
\* with no request pending
C27_Witness ==
  /\ leaguePage.mounted /\ leaguePage.id = "39"
  /\ ~leaguePage.state.present
  /\ ~leaguePage.loading /\ ~leaguePage.error
  /\ leagueRequests = {}
  /\ LeagueKey("39") \in DOMAIN sessionStorage
  /\ LeagueKey("140") \in DOMAIN sessionStorage
  /\ Len(sessionStorage[LeagueKey("140")].json) = 2
  /\ \E k \in 1..Len(sessionStorage[LeagueKey("39")].json) :
       sessionStorage[LeagueKey("39")].json[k].key = "country"
  /\ leaguePage.leagueData = [null |-> FALSE,
                              value |-> JsonParse(sessionStorage[LeagueKey("39")])]

====
